---- MODULE Spec2Model ----
(***************************************************************************)
(* The authentication core of the NFT social media app: UserResolver's     *)
(* me, register, login, logout and forgotPassword, as a state machine.     *)
(*                                                                         *)
(* Every resolver is an async function.  One action models the entry of a  *)
(* call up to its first await, and one action models each resolution of an *)
(* awaited operation together with the synchronous code that follows it up *)
(* to the next await or the return.  Calls of different requests           *)
(* interleave at these points only.                                        *)
(*                                                                         *)
(* The resolver modelled is the one with the five operations.  The other   *)
(* source file holds an earlier register of the same class, which takes a  *)
(* username and a password only: its steps (argon2.hash, em.create,        *)
(* em.persistAndFlush, return user) are steps of the register below.       *)
(***************************************************************************)
EXTENDS Integers, Sequences, FiniteSets, TLC

(* ---------------------------------------------------------------------- *)
(* Bounds and input universes                                             *)
(* ---------------------------------------------------------------------- *)

\* The ids the repository's sequence hands out are 1..MaxId.
MaxId == 2

\* The resolver calls the transport boundary accepts in one run.
MaxCalls == 3

\* The reset tokens v4() hands out are 1..MaxTokens.
MaxTokens == 2

\* Requests that can be in flight at the same time.
Reqs == {"r1", "r2"}

\* Client sessions (one signed cookie each).
Sessions == {"s1"}

\* Strings are sequences of characters.  The credentials register is called
\* with: three valid ones, of which the first shares its username with the
\* second and its email with the third, and one for each rule of the validator.
Credentials ==
  { [username |-> <<"a","b","c">>, email |-> <<"a","@","b">>, password |-> <<"p","w","1">>],
    [username |-> <<"a","b","c">>, email |-> <<"x","@","y">>, password |-> <<"p","w","2">>],
    [username |-> <<"x","y","z">>, email |-> <<"a","@","b">>, password |-> <<"p","w","1">>],
    [username |-> <<"a","b">>,     email |-> <<"a","@","b">>, password |-> <<"p","w","1">>],
    [username |-> <<"a","@","b">>, email |-> <<"x","@","y">>, password |-> <<"p","w","1">>],
    [username |-> <<"a","b","c">>, email |-> <<"a","b","c">>, password |-> <<"p","w","1">>],
    [username |-> <<"a","b","c">>, email |-> <<"a","@","b">>, password |-> <<"p">>] }

\* The identifiers and passwords login is called with, and the addresses
\* forgotPassword is called with.
Identifiers == { <<"a","b","c">>, <<"x","y","z">>, <<"a","@","b">> }
Passwords == { <<"p","w","1">>, <<"p","w","2">> }
Emails == { <<"a","@","b">>, <<"x","@","y">> }

(* ---------------------------------------------------------------------- *)
(* Values                                                                 *)
(* ---------------------------------------------------------------------- *)

\* A session without userId: !req.session.userId.
NoId == 0

\* A lookup that found nothing (findOne's null), an absent user field.
NoUser == [id |-> NoId, username |-> <<>>, email |-> <<>>, password |-> <<>>]

\* validateRegister's "no errors" (a falsy return), an absent errors field.
NoErrors == <<>>

FieldError(field, message) == [field |-> field, message |-> message]

\* includes("@")
Includes(str, ch) == \E i \in 1..Len(str) : str[i] = ch

\* argon2.hash: a digest in argon2's format, never the plaintext.
hash(plain) == <<"$argon2">> \o plain

\* argon2.verify(digest, plain)
verify(digest, plain) == digest = hash(plain)

(* ---------------------------------------------------------------------- *)
(* validateRegister (utils/validateRegister)                              *)
(* ---------------------------------------------------------------------- *)

MinUsernameLen == 3
MinPasswordLen == 3

\* The first violated rule as a one-element list of field errors, or NoErrors.
validateRegister(username, email, password) ==
  IF Len(username) < MinUsernameLen
    THEN << FieldError("username", <<"username too short">>) >>
  ELSE IF Includes(username, "@")
    THEN << FieldError("username", <<"username cannot include @">>) >>
  ELSE IF ~Includes(email, "@")
    THEN << FieldError("email", <<"invalid email">>) >>
  ELSE IF Len(password) < MinPasswordLen
    THEN << FieldError("password", <<"password too short">>) >>
  ELSE NoErrors

(* ---------------------------------------------------------------------- *)
(* State                                                                  *)
(* ---------------------------------------------------------------------- *)

VARIABLES
  users,      \* the persisted User records (em)
  nextId,     \* the next value of the User id sequence
  session,    \* session[s] = req.session.userId of client session s
  cookie,     \* cookie[s] = the client holds the session cookie COOKIE_NAME
  tokens,     \* the reset token store (redis): tokens[t] = the entry of token t
  nextToken,  \* the next token v4() returns
  outbox,     \* the reset mails handed to sendEmail, with what became of them
  calls,      \* calls[r] = the resolver call request r is running
  ncalls      \* the calls accepted so far

vars == << users, nextId, session, cookie, tokens, nextToken, outbox, calls, ncalls >>

\* UserResponse and the other return values: errors and user of a UserResponse
\* (me returns the user alone), value of a Boolean mutation.
NoResult == [errors |-> NoErrors, user |-> NoUser, value |-> FALSE]
UserResponse(errors, user) == [errors |-> errors, user |-> user, value |-> FALSE]
BooleanResult(value) == [errors |-> NoErrors, user |-> NoUser, value |-> value]

\* A request that runs no call.  The fields are the arguments and the locals
\* of the resolvers; errorCode keeps the error the awaited operation ended
\* with, and held, which no resolver reads, whether a record held the
\* username when register was called.  invoked lists, in program order, the
\* operations of its collaborators that login or forgotPassword has invoked.
Idle ==
  [ op |-> "idle", pc |-> "idle", sess |-> "none",
    username |-> <<>>, email |-> <<>>, password |-> <<>>, usernameOrEmail |-> <<>>,
    user |-> NoUser, userId |-> NoId, errorCode |-> "", result |-> NoResult,
    held |-> FALSE, token |-> 0, invoked |-> <<>> ]

\* The transport boundary hands a call to the free request r.
Accept(r) ==
  /\ calls[r].pc = "idle"
  /\ ncalls < MaxCalls
  /\ ncalls' = ncalls + 1

\* The call returns result.
Return(call, result) == [call EXCEPT !.pc = "done", !.result = result]

\* em.findOne(User, where), where = { key: value }: the record whose key
\* field is value, or null.
findOne(where) ==
  LET found == { u \in users : u[where.key] = where.value }
  IN  IF found = {} THEN NoUser ELSE CHOOSE u \in found : TRUE

\* req.session.userId = id; express-session hands the client the cookie of a
\* session that holds data.
SetSessionUserId(s, id) ==
  /\ session' = [session EXCEPT ![s] = id]
  /\ cookie' = [cookie EXCEPT ![s] = @ \/ id # NoId]

\* The time to live of a reset token, in days.
THREE_DAYS == 3

\* A key the token store does not hold.
NoToken == [userId |-> NoId, ttl |-> 0]

Init ==
  /\ users = {}
  /\ nextId = 1
  /\ session = [s \in Sessions |-> NoId]
  /\ cookie = [s \in Sessions |-> FALSE]
  /\ tokens = [t \in 1..MaxTokens |-> NoToken]
  /\ nextToken = 1
  /\ outbox = {}
  /\ calls = [r \in Reqs |-> Idle]
  /\ ncalls = 0

(* ---------------------------------------------------------------------- *)
(* register                                                               *)
(* ---------------------------------------------------------------------- *)

\* register without the early return on validation errors.
Register_SkipValidation(r, s, username, email, password) ==
  /\ Accept(r)
  /\ calls' = [calls EXCEPT ![r] =
                 [Idle EXCEPT !.op = "register", !.pc = "hash", !.sess = s,
                              !.username = username, !.email = email,
                              !.password = password,
                              !.held = \E u \in users : u.username = username]]
  /\ UNCHANGED << users, nextId, session, cookie, tokens, nextToken, outbox >>

\* register is called: validateRegister, then await argon2.hash(password).
Register(r, s, username, email, password) ==
  /\ Accept(r)
  /\ LET call == [Idle EXCEPT !.op = "register", !.sess = s, !.username = username,
                              !.email = email, !.password = password,
                              !.held = \E u \in users : u.username = username]
         errors == validateRegister(username, email, password)
     IN  calls' = [calls EXCEPT ![r] =
                     IF errors # NoErrors
                       THEN Return(call, UserResponse(errors, NoUser))
                       ELSE [call EXCEPT !.pc = "hash"]]
  /\ UNCHANGED << users, nextId, session, cookie, tokens, nextToken, outbox >>

\* em.create(User, {username, email, password: hashedPassword}): an unsaved
\* record, without id.
create(username, email, hashedPassword) ==
  [id |-> NoId, username |-> username, email |-> email, password |-> hashedPassword]

\* register creating the record with the submitted password.
RegisterHashed_Plaintext(r) ==
  /\ calls[r].op = "register" /\ calls[r].pc = "hash"
  /\ calls' = [calls EXCEPT ![r].pc = "persist",
                             ![r].user = create(calls[r].username, calls[r].email,
                                                calls[r].password)]
  /\ UNCHANGED << users, nextId, session, cookie, tokens, nextToken, outbox, ncalls >>

\* argon2.hash resolves: em.create, then await em.persistAndFlush(user).
RegisterHashed(r) ==
  /\ calls[r].op = "register" /\ calls[r].pc = "hash"
  /\ LET hashedPassword == hash(calls[r].password)
     IN  calls' = [calls EXCEPT ![r].pc = "persist",
                                ![r].user = create(calls[r].username, calls[r].email,
                                                   hashedPassword)]
  /\ UNCHANGED << users, nextId, session, cookie, tokens, nextToken, outbox, ncalls >>

\* The unique constraints on username and email.
DuplicateKey(user) ==
  \E u \in users : u.username = user.username \/ u.email = user.email

\* The error codes persistAndFlush rejects with: unique_violation, and
\* connection_failure to stand for every other failure.
UniqueViolation == "23505"
ConnectionFailure == "08006"

\* The ways em.persistAndFlush(user) can end: the repository, the sequence,
\* the user entity and the error code ("" when it resolves) afterwards.
\*  - the insert commits: the record is stored under a fresh id;
\*  - the insert violates a unique constraint: nothing is stored;
\*  - it fails for another reason before the insert returned an id;
\*  - it fails for another reason after the insert returned an id (the
\*    transaction is rolled back, the entity keeps the id, the sequence
\*    does not give it again).
persistAndFlush(user) ==
  LET saved == [user EXCEPT !.id = nextId]
  IN  { o \in
        { [users |-> users \cup {saved}, nextId |-> nextId + 1, user |-> saved,
           code |-> "", when |-> ~DuplicateKey(user) /\ nextId <= MaxId],
          [users |-> users, nextId |-> nextId, user |-> user,
           code |-> UniqueViolation, when |-> DuplicateKey(user)],
          [users |-> users, nextId |-> nextId, user |-> user,
           code |-> ConnectionFailure, when |-> TRUE],
          [users |-> users, nextId |-> nextId + 1, user |-> saved,
           code |-> ConnectionFailure, when |-> nextId <= MaxId] } : o.when }

\* error.code == "23505"
IsDuplicateError(code) == code = UniqueViolation

\* em.persistAndFlush settles: the catch block, then the session write and
\* the return.
RegisterPersisted(r) ==
  /\ calls[r].op = "register" /\ calls[r].pc = "persist"
  /\ \E o \in persistAndFlush(calls[r].user) :
       /\ users' = o.users
       /\ nextId' = o.nextId
       /\ IF o.code # "" /\ IsDuplicateError(o.code)
            THEN /\ calls' = [calls EXCEPT ![r] =
                       Return([@ EXCEPT !.errorCode = o.code],
                              UserResponse(<< FieldError("username",
                                                <<"username already taken">>) >>,
                                           NoUser))]
                 /\ UNCHANGED << session, cookie >>
            ELSE /\ SetSessionUserId(calls[r].sess, o.user.id)
                 /\ calls' = [calls EXCEPT ![r] =
                       Return([@ EXCEPT !.user = o.user, !.errorCode = o.code],
                              UserResponse(NoErrors, o.user))]
  /\ UNCHANGED << tokens, nextToken, outbox, ncalls >>

(* ---------------------------------------------------------------------- *)
(* login                                                                  *)
(* ---------------------------------------------------------------------- *)

\* login is called: await em.findOne(User, ...).
Login(r, s, usernameOrEmail, password) ==
  /\ Accept(r)
  /\ calls' = [calls EXCEPT ![r] =
                 [Idle EXCEPT !.op = "login", !.pc = "find", !.sess = s,
                              !.usernameOrEmail = usernameOrEmail,
                              !.password = password,
                              !.invoked = << "findOne" >>]]
  /\ UNCHANGED << users, nextId, session, cookie, tokens, nextToken, outbox >>

\* login looking every identifier up as a username.
LoginWhere_UsernameOnly(usernameOrEmail) ==
  [key |-> "username", value |-> usernameOrEmail]

\* usernameOrEmail.includes("@") ? { email: usernameOrEmail }
\*                                : { username: usernameOrEmail }
LoginWhere(usernameOrEmail) ==
  IF Includes(usernameOrEmail, "@")
    THEN [key |-> "email", value |-> usernameOrEmail]
    ELSE [key |-> "username", value |-> usernameOrEmail]

\* `"${usernameOrEmail}" does not exist`
DoesNotExist(usernameOrEmail) == <<"\"">> \o usernameOrEmail \o <<"\" does not exist">>

\* login verifying the password whether or not the lookup found a record.
LoginFound_NoExistenceCheck(r) ==
  /\ calls[r].op = "login" /\ calls[r].pc = "find"
  /\ LET user == findOne(LoginWhere(calls[r].usernameOrEmail))
     IN  calls' = [calls EXCEPT ![r] =
                     [@ EXCEPT !.pc = "verify", !.user = user,
                               !.invoked = Append(@, "verify")]]
  /\ UNCHANGED << users, nextId, session, cookie, tokens, nextToken, outbox, ncalls >>

\* findOne resolves: the existence check, then await argon2.verify.
LoginFound(r) ==
  /\ calls[r].op = "login" /\ calls[r].pc = "find"
  /\ LET user == findOne(LoginWhere(calls[r].usernameOrEmail))
     IN  calls' = [calls EXCEPT ![r] =
                     IF user = NoUser
                       THEN Return(@, UserResponse(
                              << FieldError("usernameOrEmail",
                                            DoesNotExist(calls[r].usernameOrEmail)) >>,
                              NoUser))
                       ELSE [@ EXCEPT !.pc = "verify", !.user = user,
                                      !.invoked = Append(@, "verify")]]
  /\ UNCHANGED << users, nextId, session, cookie, tokens, nextToken, outbox, ncalls >>

\* login returning the record along with the "incorrect password" error.
LoginVerified_ErrorWithUser(r) ==
  /\ calls[r].op = "login" /\ calls[r].pc = "verify"
  /\ LET validPassword == verify(calls[r].user.password, calls[r].password)
     IN  IF ~validPassword
           THEN /\ calls' = [calls EXCEPT ![r] =
                      Return(@, UserResponse(
                        << FieldError("password", <<"incorrect password">>) >>,
                        calls[r].user))]
                /\ UNCHANGED << session, cookie >>
           ELSE /\ SetSessionUserId(calls[r].sess, calls[r].user.id)
                /\ calls' = [calls EXCEPT ![r] =
                      Return([@ EXCEPT !.invoked = Append(@, "session")],
                             UserResponse(NoErrors, calls[r].user))]
  /\ UNCHANGED << users, nextId, tokens, nextToken, outbox, ncalls >>

\* login writing the session before it looks at the outcome of verify.
LoginVerified_WritesFirst(r) ==
  /\ calls[r].op = "login" /\ calls[r].pc = "verify"
  /\ SetSessionUserId(calls[r].sess, calls[r].user.id)
  /\ LET validPassword == verify(calls[r].user.password, calls[r].password)
     IN  calls' = [calls EXCEPT ![r] =
           IF ~validPassword
             THEN Return(@, UserResponse(
                    << FieldError("password", <<"incorrect password">>) >>, NoUser))
             ELSE Return(@, UserResponse(NoErrors, calls[r].user))]
  /\ UNCHANGED << users, nextId, tokens, nextToken, outbox, ncalls >>

\* argon2.verify resolves: the password check, then the session write and
\* the return.
LoginVerified(r) ==
  /\ calls[r].op = "login" /\ calls[r].pc = "verify"
  /\ LET validPassword == verify(calls[r].user.password, calls[r].password)
     IN  IF ~validPassword
           THEN /\ calls' = [calls EXCEPT ![r] =
                      Return(@, UserResponse(
                        << FieldError("password", <<"incorrect password">>) >>,
                        NoUser))]
                /\ UNCHANGED << session, cookie >>
           ELSE /\ SetSessionUserId(calls[r].sess, calls[r].user.id)
                /\ calls' = [calls EXCEPT ![r] =
                      Return([@ EXCEPT !.invoked = Append(@, "session")],
                             UserResponse(NoErrors, calls[r].user))]
  /\ UNCHANGED << users, nextId, tokens, nextToken, outbox, ncalls >>

(* ---------------------------------------------------------------------- *)
(* logout                                                                 *)
(* ---------------------------------------------------------------------- *)

\* logout is called: req.session.destroy(callback).
Logout(r, s) ==
  /\ Accept(r)
  /\ calls' = [calls EXCEPT ![r] =
                 [Idle EXCEPT !.op = "logout", !.pc = "destroy", !.sess = s]]
  /\ UNCHANGED << users, nextId, session, cookie, tokens, nextToken, outbox >>

\* The resolve calls of the destroy callback, in order: resolve(false) when
\* there is an error, then resolve(true).
LogoutResolves(error) == IF error THEN << FALSE, TRUE >> ELSE << TRUE >>

\* A promise taking the value of its last resolve call.
Settled_Last(resolves) == resolves[Len(resolves)]

\* A promise settles with the value of its first resolve call.
Settled(resolves) == Head(resolves)

\* The destroy callback runs, with an error when the store could not remove
\* the session: res.clearCookie, then the promise resolves.
LogoutDestroyed(r) ==
  /\ calls[r].op = "logout" /\ calls[r].pc = "destroy"
  /\ \E error \in BOOLEAN :
       /\ session' = [session EXCEPT ![calls[r].sess] = IF error THEN @ ELSE NoId]
       /\ cookie' = [cookie EXCEPT ![calls[r].sess] = FALSE]
       /\ calls' = [calls EXCEPT ![r] =
            Return([@ EXCEPT !.errorCode = IF error THEN "destroy" ELSE ""],
                   BooleanResult(Settled(LogoutResolves(error))))]
  /\ UNCHANGED << users, nextId, tokens, nextToken, outbox, ncalls >>

(* ---------------------------------------------------------------------- *)
(* me                                                                     *)
(* ---------------------------------------------------------------------- *)

\* me touching the session, so that the client is handed a cookie.
Me_TouchesSession(r, s) ==
  /\ Accept(r)
  /\ LET call == [Idle EXCEPT !.op = "me", !.sess = s]
     IN  calls' = [calls EXCEPT ![r] =
                     IF session[s] = NoId
                       THEN Return(call, UserResponse(NoErrors, NoUser))
                       ELSE [call EXCEPT !.pc = "find", !.userId = session[s]]]
  /\ cookie' = [cookie EXCEPT ![s] = TRUE]
  /\ UNCHANGED << users, nextId, session, tokens, nextToken, outbox >>

\* me is called: the session check, then await em.findOne(User, {id}).
Me(r, s) ==
  /\ Accept(r)
  /\ LET call == [Idle EXCEPT !.op = "me", !.sess = s]
     IN  calls' = [calls EXCEPT ![r] =
                     IF session[s] = NoId
                       THEN Return(call, UserResponse(NoErrors, NoUser))
                       ELSE [call EXCEPT !.pc = "find", !.userId = session[s]]]
  /\ UNCHANGED << users, nextId, session, cookie, tokens, nextToken, outbox >>

\* me returning whatever record the repository has.
MeFound_AnyUser(r) ==
  /\ calls[r].op = "me" /\ calls[r].pc = "find"
  /\ LET user == IF users = {} THEN NoUser ELSE CHOOSE u \in users : TRUE
     IN  calls' = [calls EXCEPT ![r] =
                     Return([@ EXCEPT !.user = user], UserResponse(NoErrors, user))]
  /\ UNCHANGED << users, nextId, session, cookie, tokens, nextToken, outbox, ncalls >>

\* findOne resolves: me returns the record, or null.
MeFound(r) ==
  /\ calls[r].op = "me" /\ calls[r].pc = "find"
  /\ LET user == findOne([key |-> "id", value |-> calls[r].userId])
     IN  calls' = [calls EXCEPT ![r] =
                     Return([@ EXCEPT !.user = user], UserResponse(NoErrors, user))]
  /\ UNCHANGED << users, nextId, session, cookie, tokens, nextToken, outbox, ncalls >>

(* ---------------------------------------------------------------------- *)
(* forgotPassword                                                         *)
(* ---------------------------------------------------------------------- *)

\* forgotPassword is called: await em.findOne(User, {email}).
ForgotPassword(r, s, email) ==
  /\ Accept(r)
  /\ calls' = [calls EXCEPT ![r] =
                 [Idle EXCEPT !.op = "forgotPassword", !.pc = "find", !.sess = s,
                              !.email = email, !.invoked = << "findOne" >>]]
  /\ UNCHANGED << users, nextId, session, cookie, tokens, nextToken, outbox >>

\* redis.set with a time to live of one day more.
RedisSet_LongerLife(token, userId, stored) ==
  IF stored
    THEN [tokens EXCEPT ![token] = [userId |-> userId, ttl |-> THREE_DAYS + 1]]
    ELSE tokens

\* redis.set(FORGET_PASSWORD_PREFIX + token, userId, "ex", THREE_DAYS), which
\* the resolver does not await: the entry is written, or the write fails.
RedisSet(token, userId, stored) ==
  IF stored
    THEN [tokens EXCEPT ![token] = [userId |-> userId, ttl |-> THREE_DAYS]]
    ELSE tokens

\* forgotPassword sending the mail before it stores the token.
ForgotPasswordInvokes_MailFirst == << "sendEmail", "redis.set" >>

\* The operations forgotPassword invokes once it has a token, in order.
ForgotPasswordInvokes == << "redis.set", "sendEmail" >>

\* findOne resolves: without a record forgotPassword returns true; with one
\* it draws a token, stores it, hands the mail to sendEmail, which it does
\* not await either, and returns true.
ForgotPasswordFound(r) ==
  /\ calls[r].op = "forgotPassword" /\ calls[r].pc = "find"
  /\ LET user == findOne([key |-> "email", value |-> calls[r].email])
     IN  IF user = NoUser
           THEN /\ calls' = [calls EXCEPT ![r] = Return(@, BooleanResult(TRUE))]
                /\ UNCHANGED << tokens, nextToken, outbox >>
           ELSE /\ nextToken <= MaxTokens
                /\ \E stored \in BOOLEAN :
                     /\ tokens' = RedisSet(nextToken, user.id, stored)
                     /\ calls' = [calls EXCEPT ![r] =
                          Return([@ EXCEPT !.user = user, !.token = nextToken,
                                           !.invoked = @ \o ForgotPasswordInvokes,
                                           !.errorCode = IF stored THEN "" ELSE "redis"],
                                 BooleanResult(TRUE))]
                /\ nextToken' = nextToken + 1
                /\ outbox' = outbox \cup {[to |-> calls[r].email, token |-> nextToken,
                                           status |-> "pending"]}
  /\ UNCHANGED << users, nextId, session, cookie, ncalls >>

\* The promise of sendEmail settles: the mail was sent, or the send failed.
SendEmailSettled(mail) ==
  /\ mail \in outbox /\ mail.status = "pending"
  /\ \E status \in {"sent", "failed"} :
       outbox' = (outbox \ {mail}) \cup {[mail EXCEPT !.status = status]}
  /\ UNCHANGED << users, nextId, session, cookie, tokens, nextToken, calls, ncalls >>

\* A day passes: the token store drops the entries whose time to live is over.
Tick ==
  /\ \E t \in 1..MaxTokens : tokens[t].ttl > 0
  /\ tokens' = [t \in 1..MaxTokens |->
                  IF tokens[t].ttl > 1
                    THEN [tokens[t] EXCEPT !.ttl = @ - 1]
                    ELSE NoToken]
  /\ UNCHANGED << users, nextId, session, cookie, nextToken, outbox, calls, ncalls >>

(* ---------------------------------------------------------------------- *)
(* The transport boundary                                                 *)
(* ---------------------------------------------------------------------- *)

\* The response of a finished call is sent; the request slot is free again.
Respond(r) ==
  /\ calls[r].pc = "done"
  /\ calls' = [calls EXCEPT ![r] = Idle]
  /\ UNCHANGED << users, nextId, session, cookie, tokens, nextToken, outbox, ncalls >>

(* ---------------------------------------------------------------------- *)
(* The system                                                             *)
(* ---------------------------------------------------------------------- *)

Next ==
  \/ \E r \in Reqs, s \in Sessions :
       \/ \E c \in Credentials : Register(r, s, c.username, c.email, c.password)
       \/ \E usernameOrEmail \in Identifiers, password \in Passwords :
            Login(r, s, usernameOrEmail, password)
       \/ Logout(r, s)
       \/ Me(r, s)
       \/ \E email \in Emails : ForgotPassword(r, s, email)
  \/ \E r \in Reqs :
       \/ RegisterHashed(r)
       \/ RegisterPersisted(r)
       \/ LoginFound(r)
       \/ LoginVerified(r)
       \/ LogoutDestroyed(r)
       \/ MeFound(r)
       \/ ForgotPasswordFound(r)
       \/ Respond(r)
  \/ \E mail \in outbox : SendEmailSettled(mail)
  \/ Tick

Spec == Init /\ [][Next]_vars

\* The session store calls the destroy callback of every logout.
FairSpec == Spec /\ \A r \in Reqs : WF_vars(LogoutDestroyed(r))

(* ---------------------------------------------------------------------- *)
(* Properties                                                             *)
(* ---------------------------------------------------------------------- *)

\* Request r takes the step that ends its call of op.
Completes(r, op) ==
  /\ calls[r].op = op /\ calls[r].pc # "done"
  /\ calls'[r].op = op /\ calls'[r].pc = "done"

\* The one error register reports for a duplicate key.
UsernameTaken == << [field |-> "username", message |-> <<"username already taken">>] >>

\* The credentials break a rule of the validator.
ViolatesRule(username, email, password) ==
  \/ Len(username) < MinUsernameLen
  \/ \E i \in 1..Len(username) : username[i] = "@"
  \/ \A i \in 1..Len(email) : email[i] # "@"
  \/ Len(password) < MinPasswordLen

\* C1: a register call whose persistAndFlush failed, for a duplicate key or
\* for any other reason, leaves the session as it was and returns no user.
C1_FailedPersistEstablishesNothing ==
  [][\A r \in Reqs :
       (Completes(r, "register") /\ calls'[r].errorCode # "")
         => /\ session' = session
            /\ calls'[r].result.user = NoUser]_vars

\* C2: the userId of a session is absent or the id of a persisted User record.
C2_SessionReferencesUser ==
  \A s \in Sessions : session[s] = NoId \/ \E u \in users : u.id = session[s]

\* C3: a register call whose credentials break a validator rule returns a
\* non-empty errors list and no user, and changes neither the repository
\* nor the session.
C3_InvalidInputNoEffect ==
  [][\A r \in Reqs :
       ( /\ calls[r].pc = "idle"
         /\ calls'[r].op = "register"
         /\ ViolatesRule(calls'[r].username, calls'[r].email, calls'[r].password) )
         => /\ calls'[r].pc = "done"
            /\ calls'[r].result.errors # NoErrors
            /\ calls'[r].result.user = NoUser
            /\ users' = users /\ nextId' = nextId
            /\ session' = session /\ cookie' = cookie]_vars

\* C3's case: a register call with a username containing "@" has returned,
\* while a record exists and the session is signed in.
C3_Witness ==
  \E r \in Reqs :
    /\ calls[r].op = "register" /\ calls[r].pc = "done"
    /\ \E i \in 1..Len(calls[r].username) : calls[r].username[i] = "@"
    /\ calls[r].result.errors # NoErrors
    /\ users # {}
    /\ session[calls[r].sess] # NoId

\* C4: a register call with valid credentials whose username a record held
\* when it was called returns exactly the "username already taken" error and no
\* user, adds no record and leaves the session as it was.
C4_TakenUsernameRejected ==
  [][\A r \in Reqs :
       ( /\ Completes(r, "register")
         /\ calls[r].pc = "persist"
         /\ calls[r].held )
         => /\ calls'[r].result = UserResponse(UsernameTaken, NoUser)
            /\ users' = users
            /\ session' = session]_vars

\* C5: of the register calls that share a username or an email at most one
\* returns a user, and no two persisted records share a username or an email.
C5_NoTwoSucceed ==
  /\ \A r1, r2 \in Reqs :
       ( /\ r1 # r2
         /\ calls[r1].op = "register" /\ calls[r1].pc = "done"
         /\ calls[r2].op = "register" /\ calls[r2].pc = "done"
         /\ \/ calls[r1].username = calls[r2].username
            \/ calls[r1].email = calls[r2].email )
         => ~(calls[r1].result.user # NoUser /\ calls[r2].result.user # NoUser)
  /\ \A u, v \in users :
       (u.username = v.username \/ u.email = v.email) => u = v

\* C6: a register call whose username and email no record holds when it
\* reaches the repository returns the user and no errors, exactly one record,
\* the returned one, is added, and the session's userId is the record's id.
C6_UnusedCredentialsRegistered ==
  [][\A r \in Reqs :
       ( /\ Completes(r, "register")
         /\ calls[r].pc = "persist"
         /\ \A u \in users : /\ u.username # calls[r].username
                             /\ u.email # calls[r].email )
         => \E u \in users' :
              /\ u \notin users
              /\ users' = users \cup {u}
              /\ calls'[r].result = UserResponse(NoErrors, u)
              /\ u.id # NoId
              /\ session'[calls[r].sess] = u.id]_vars

\* digest is the hash of plain, and not plain itself.
IsHashOf(digest, plain) ==
  /\ Len(digest) = Len(plain) + 1
  /\ digest[1] = "$argon2"
  /\ \A i \in 1..Len(plain) : digest[i + 1] = plain[i]
  /\ digest # plain

\* C7: the password of every User record, created, persisted or returned, is
\* the hash of a submitted password and never the submitted plaintext.
C7_PasswordIsHashed ==
  /\ \A u \in users :
       \E c \in Credentials :
         /\ u.username = c.username /\ u.email = c.email
         /\ IsHashOf(u.password, c.password)
  /\ \A r \in Reqs :
       calls[r].op = "register"
         => /\ calls[r].user # NoUser
                 => IsHashOf(calls[r].user.password, calls[r].password)
            /\ calls[r].result.user # NoUser
                 => IsHashOf(calls[r].result.user.password, calls[r].password)

\* C7's case: register has persisted a record and returned it.
C7_Witness ==
  \E r \in Reqs :
    /\ calls[r].op = "register" /\ calls[r].pc = "done"
    /\ calls[r].result.user \in users

\* The records login's lookup of an identifier matches.
Matching(usernameOrEmail) ==
  { u \in users :
      IF \E i \in 1..Len(usernameOrEmail) : usernameOrEmail[i] = "@"
        THEN u.email = usernameOrEmail
        ELSE u.username = usernameOrEmail }

\* C8: login looks an identifier with "@" up by email and any other by
\* username; without a match it returns the one "does not exist" error on
\* usernameOrEmail; with a match whose stored hash the password does not
\* verify against it returns the one "incorrect password" error on password;
\* otherwise it returns the matched user and sets the session's userId to the
\* user's id.
C8_LoginResult ==
  [][\A r \in Reqs :
       /\ (calls[r].op = "login" /\ calls[r].pc = "find" /\ calls'[r] # calls[r])
            => IF Matching(calls[r].usernameOrEmail) = {}
                 THEN /\ calls'[r].pc = "done"
                      /\ calls'[r].result =
                           UserResponse(
                             << [field |-> "usernameOrEmail",
                                 message |-> <<"\"">> \o calls[r].usernameOrEmail
                                               \o <<"\" does not exist">>] >>,
                             NoUser)
                 ELSE /\ calls'[r].pc = "verify"
                      /\ calls'[r].user \in Matching(calls[r].usernameOrEmail)
       /\ (calls[r].op = "login" /\ calls[r].pc = "verify" /\ calls'[r] # calls[r])
            => /\ calls'[r].pc = "done"
               /\ IF IsHashOf(calls[r].user.password, calls[r].password)
                    THEN /\ calls'[r].result = UserResponse(NoErrors, calls[r].user)
                         /\ session'[calls[r].sess] = calls[r].user.id
                    ELSE calls'[r].result =
                           UserResponse(
                             << [field |-> "password",
                                 message |-> <<"incorrect password">>] >>,
                             NoUser)]_vars

\* C8's case: a login by email has returned the user with that email, and
\* the session is the user's.
C8_Witness ==
  \E r \in Reqs :
    /\ calls[r].op = "login" /\ calls[r].pc = "done"
    /\ \E i \in 1..Len(calls[r].usernameOrEmail) : calls[r].usernameOrEmail[i] = "@"
    /\ calls[r].result.user \in users
    /\ calls[r].result.user.email = calls[r].usernameOrEmail
    /\ session[calls[r].sess] = calls[r].result.user.id

\* C9: no step of a login call changes the session or its cookie, except the
\* step that returns the user.
C9_FailedLoginKeepsSession ==
  [][\A r \in Reqs :
       ( /\ calls'[r] # calls[r]
         /\ calls'[r].op = "login"
         /\ ~(calls'[r].pc = "done" /\ calls'[r].result.errors = NoErrors) )
         => session' = session /\ cookie' = cookie]_vars

\* C9's case: a login has returned "incorrect password" on a session that is
\* signed in.
C9_Witness ==
  \E r \in Reqs :
    /\ calls[r].op = "login" /\ calls[r].pc = "done"
    /\ calls[r].result.errors # NoErrors
    /\ calls[r].result.errors[1].field = "password"
    /\ session[calls[r].sess] # NoId

\* C10: every logout call comes to return, the step that runs its destroy
\* callback clears the session's cookie whether or not destroy failed, and it
\* returns true when destroy succeeded and false when it failed.
C10_LogoutClearsCookie ==
  /\ \A r \in Reqs :
       (calls[r].op = "logout" /\ calls[r].pc = "destroy")
         ~> (calls[r].op = "logout" /\ calls[r].pc = "done")
  /\ [][\A r \in Reqs :
          Completes(r, "logout") => ~cookie'[calls[r].sess]]_vars
  /\ [](\A r \in Reqs :
          (calls[r].op = "logout" /\ calls[r].pc = "done")
            => (calls[r].result.value <=> calls[r].errorCode = ""))

\* C10's case: a logout whose destroy failed has returned, on a session that
\* was signed in.
C10_Witness ==
  \E r \in Reqs :
    /\ calls[r].op = "logout" /\ calls[r].pc = "done"
    /\ calls[r].errorCode # ""
    /\ session[calls[r].sess] # NoId
    /\ ~cookie[calls[r].sess]

\* The records that own an email address.
Owners(email) == { u \in users : u.email = email }

\* C11: forgotPassword returns true for an email without a record and for an
\* email with one; without a record the token store stays as it is, with one
\* exactly one entry is added to it, under a token that had none, holding the
\* id of the record that owns the email.
C11_ForgotPasswordIssuesOneToken ==
  [][\A r \in Reqs :
       Completes(r, "forgotPassword")
         => /\ calls'[r].result.value = TRUE
            /\ IF Owners(calls[r].email) = {}
                 THEN tokens' = tokens
                 ELSE \E t \in 1..MaxTokens :
                        /\ tokens[t] = NoToken
                        /\ tokens'[t] # NoToken
                        /\ \E u \in Owners(calls[r].email) : tokens'[t].userId = u.id
                        /\ \A o \in 1..MaxTokens : o # t => tokens'[o] = tokens[o]]_vars

\* C12: a token is stored with the id of the record forgotPassword found and
\* three days to live; while it lives its entry keeps that id, each day takes
\* one day of its life, and the entry is gone when the third day has passed.
C12_TokenKeepsUserUntilExpiry ==
  [][\A t \in 1..MaxTokens :
       /\ (tokens[t] = NoToken /\ tokens'[t] # NoToken)
            => /\ tokens'[t].ttl = 3
               /\ \E r \in Reqs :
                    /\ Completes(r, "forgotPassword")
                    /\ calls'[r].token = t
                    /\ Owners(calls[r].email) # {}
                    /\ \A u \in Owners(calls[r].email) : tokens'[t].userId = u.id
       /\ tokens[t] # NoToken
            => \/ tokens'[t] = tokens[t]
               \/ /\ tokens[t].ttl > 1
                  /\ tokens'[t] = [userId |-> tokens[t].userId, ttl |-> tokens[t].ttl - 1]
               \/ /\ tokens[t].ttl = 1
                  /\ tokens'[t] = NoToken]_vars

\* C12's case: the token of a forgotPassword call whose write was stored has
\* expired, and a later token of the same user lives.
C12_Witness ==
  \E r \in Reqs :
    /\ calls[r].op = "forgotPassword" /\ calls[r].pc = "done"
    /\ calls[r].user # NoUser /\ calls[r].errorCode = ""
    /\ tokens[calls[r].token] = NoToken
    /\ \E t \in 1..MaxTokens : tokens[t].userId = calls[r].user.id

\* C13: a forgotPassword call whose write to the token store failed does not
\* return true.
C13_FailedWriteNotSuccess ==
  \A r \in Reqs :
    ( /\ calls[r].op = "forgotPassword" /\ calls[r].pc = "done"
      /\ calls[r].errorCode = "redis" )
      => calls[r].result.value # TRUE

\* C14: me returns no user and no error when the session holds no userId and
\* when no record has the userId it holds, and otherwise the record whose id
\* is that userId.
C14_MeResult ==
  [][\A r \in Reqs :
       /\ (calls[r].pc = "idle" /\ calls'[r].op = "me"
             /\ session[calls'[r].sess] = NoId)
            => /\ calls'[r].pc = "done"
               /\ calls'[r].result = UserResponse(NoErrors, NoUser)
       /\ (calls[r].pc = "idle" /\ calls'[r].op = "me"
             /\ session[calls'[r].sess] # NoId)
            => /\ calls'[r].pc = "find"
               /\ calls'[r].userId = session[calls'[r].sess]
       /\ (calls[r].op = "me" /\ calls[r].pc = "find" /\ calls'[r] # calls[r])
            => /\ calls'[r].pc = "done"
               /\ calls'[r].result.errors = NoErrors
               /\ IF \E u \in users : u.id = calls[r].userId
                    THEN /\ calls'[r].result.user \in users
                         /\ calls'[r].result.user.id = calls[r].userId
                    ELSE calls'[r].result.user = NoUser]_vars

\* C14's case: me has returned no user, and no error, on a session whose
\* userId no record has, while the repository holds another record.
C14_Witness ==
  \E r \in Reqs :
    /\ calls[r].op = "me" /\ calls[r].pc = "done"
    /\ calls[r].userId # NoId
    /\ calls[r].result = UserResponse(NoErrors, NoUser)
    /\ users # {}

\* C15: no step of a me call changes the session, its cookie, the repository
\* or the token store, and two me calls that read the same userId from the
\* session return the same result.
C15_MeReadOnly ==
  /\ [][\A r \in Reqs :
          (calls'[r] # calls[r] /\ calls'[r].op = "me")
            => UNCHANGED << session, cookie, users, nextId, tokens, nextToken, outbox >>]_vars
  /\ [](\A r1, r2 \in Reqs :
          ( /\ calls[r1].op = "me" /\ calls[r1].pc = "done"
            /\ calls[r2].op = "me" /\ calls[r2].pc = "done"
            /\ calls[r1].sess = calls[r2].sess
            /\ calls[r1].userId = calls[r2].userId )
            => calls[r1].result = calls[r2].result)

\* C15's case: two me calls on the session of a registered user have returned
\* the user, and the session is still the user's.
C15_Witness ==
  \E r1, r2 \in Reqs :
    /\ r1 # r2
    /\ calls[r1].op = "me" /\ calls[r1].pc = "done"
    /\ calls[r2].op = "me" /\ calls[r2].pc = "done"
    /\ calls[r1].sess = calls[r2].sess
    /\ calls[r1].result.user \in users
    /\ calls[r2].result = calls[r1].result
    /\ session[calls[r1].sess] = calls[r1].result.user.id

\* C16: every result register and login return holds a user and no errors,
\* or errors and no user.
C16_ResultEnvelope ==
  \A r \in Reqs :
    (calls[r].op \in {"register", "login"} /\ calls[r].pc = "done")
      => \/ calls[r].result.user # NoUser /\ calls[r].result.errors = NoErrors
         \/ calls[r].result.user = NoUser /\ calls[r].result.errors # NoErrors

\* C16's case: a register call has returned a user while a login call has
\* returned an error.
C16_Witness ==
  \E r1, r2 \in Reqs :
    /\ calls[r1].op = "register" /\ calls[r1].pc = "done"
    /\ calls[r1].result.user \in users
    /\ calls[r2].op = "login" /\ calls[r2].pc = "done"
    /\ calls[r2].result.errors # NoErrors

\* a occurs before b in seq.
Precedes(seq, a, b) ==
  \E i, j \in 1..Len(seq) : i < j /\ seq[i] = a /\ seq[j] = b

\* a occurs in seq.
Occurs(seq, a) == \E i \in 1..Len(seq) : seq[i] = a

\* C17: login invokes verify only after its lookup, and only when the lookup
\* returned a record; it writes the session only after verify, and only when
\* the password verifies against the record's hash.
C17_LoginOrder ==
  /\ [](\A r \in Reqs :
          calls[r].op = "login"
            => /\ Occurs(calls[r].invoked, "verify")
                    => /\ Precedes(calls[r].invoked, "findOne", "verify")
                       /\ calls[r].user \in users
               /\ Occurs(calls[r].invoked, "session")
                    => /\ Precedes(calls[r].invoked, "verify", "session")
                       /\ IsHashOf(calls[r].user.password, calls[r].password))
  /\ [][\A r \in Reqs :
          (calls'[r] # calls[r] /\ calls'[r].op = "login" /\ session' # session)
            => /\ calls[r].pc = "verify"
               /\ IsHashOf(calls[r].user.password, calls[r].password)]_vars

\* C17's case: a login whose lookup found no record has returned without
\* invoking verify, while the repository holds a record.
C17_Witness ==
  \E r \in Reqs :
    /\ calls[r].op = "login" /\ calls[r].pc = "done"
    /\ calls[r].user = NoUser
    /\ calls[r].invoked = << "findOne" >>
    /\ users # {}

C19_RegisterLoginRoundTrip ==
  /\ [](\A r \in Reqs :
          ( /\ calls[r].op = "register" /\ calls[r].pc = "done"
            /\ calls[r].result.user \in users )
            => verify(calls[r].result.user.password, calls[r].password))
  /\ [][\A r \in Reqs :
          /\ (calls[r].op = "login" /\ calls[r].pc = "find" /\ calls'[r] # calls[r])
               => \A u \in users :
                    (calls[r].usernameOrEmail \in {u.username, u.email})
                      => calls'[r].pc = "verify" /\ calls'[r].user = u
          /\ ( /\ calls[r].op = "login" /\ calls[r].pc = "verify"
               /\ calls'[r] # calls[r]
               /\ verify(calls[r].user.password, calls[r].password) )
               => /\ calls'[r].result = UserResponse(NoErrors, calls[r].user)
                  /\ session'[calls[r].sess] = calls[r].user.id]_vars

\* C19's case: a login with the username of a persisted record has returned
\* the record.
C19_Witness ==
  \E r \in Reqs :
    /\ calls[r].op = "login" /\ calls[r].pc = "done"
    /\ calls[r].result.user \in users
    /\ calls[r].result.user.username = calls[r].usernameOrEmail

====
